---------------------------- MODULE Spec2Model ----------------------------
(***************************************************************************)
(* A model of json_tools.py: the path parser (parse_path), the path        *)
(* evaluator (pick), deep_merge and structural_diff.                       *)
(*                                                                         *)
(* Python values are tagged records.  A str is a sequence of one-character *)
(* strings, so that indexing and scanning a string is expressible.  The    *)
(* immutable values (None, bool, int, str, tuple) are always held by       *)
(* value; dict and list are held by value where the code only reads them   *)
(* (parse_path, pick, structural_diff) and as cells of a heap where the    *)
(* code builds new containers out of old ones (deep_merge).                *)
(* Sequences are 1-based here and 0-based in Python: position i of the     *)
(* code is position i + 1 of the model.                                    *)
(***************************************************************************)
EXTENDS Integers, Sequences, FiniteSets, TLC

VARIABLES op, args, heap, result

vars == <<op, args, heap, result>>

(***************************************************************************)
(* Bounds of the checked inputs.                                           *)
(***************************************************************************)
MaxPathLen == 4
MaxSegs == 2
MaxNodes == 3

(***************************************************************************)
(* Python values.                                                          *)
(***************************************************************************)
Null == [t |-> "null"]
Bool(b) == [t |-> "bool", b |-> b]
Num(n) == [t |-> "num", n |-> n]
Str(s) == [t |-> "str", s |-> s]
Tuple(items) == [t |-> "tuple", items |-> items]
List(items) == [t |-> "list", items |-> items]
\* A dict keeps its insertion order: a sequence of <<key, value>> pairs with
\* distinct keys, each key a sequence of characters.
Dict(items) == [t |-> "dict", items |-> items]

\* The outcome of a call: a returned value or a raised exception.
Ok(v) == [kind |-> "ok", value |-> v]
Raise(e) == [kind |-> "raise", exc |-> e]

Range(s) == {s[k] : k \in DOMAIN s}

(***************************************************************************)
(* int(idx_str), the builtin as it treats a str: surrounding whitespace is *)
(* stripped, one sign is allowed, and the rest is decimal digits that      *)
(* single underscores may separate.  Anything else raises ValueError.      *)
(***************************************************************************)
Whitespace == {" "}
DigitChars == <<"0", "1", "2", "3", "4", "5", "6", "7", "8", "9">>
Digits == Range(DigitChars)
DigitVal(c) == (CHOOSE k \in DOMAIN DigitChars : DigitChars[k] = c) - 1

RECURSIVE strip(_)
strip(s) ==
    IF s = <<>> THEN s
    ELSE IF s[1] \in Whitespace THEN strip(Tail(s))
    ELSE IF s[Len(s)] \in Whitespace THEN strip(SubSeq(s, 1, Len(s) - 1))
    ELSE s

IntBodyOK(d) ==
    /\ Len(d) > 0
    /\ d[1] \in Digits
    /\ d[Len(d)] \in Digits
    /\ \A k \in DOMAIN d : d[k] \in Digits \cup {"_"}
    /\ \A k \in 1..(Len(d) - 1) : ~(d[k] = "_" /\ d[k + 1] = "_")

RECURSIVE DigitsValue(_, _)
DigitsValue(d, acc) ==
    IF d = <<>> THEN acc
    ELSE IF d[1] = "_" THEN DigitsValue(Tail(d), acc)
    ELSE DigitsValue(Tail(d), acc * 10 + DigitVal(d[1]))

int(s) ==
    LET t == strip(s)
        signed == Len(t) > 0 /\ t[1] \in {"+", "-"}
        body == IF signed THEN Tail(t) ELSE t
        mag == DigitsValue(body, 0)
    IN  IF IntBodyOK(body)
        THEN Ok(IF signed /\ t[1] = "-" THEN 0 - mag ELSE mag)
        ELSE Raise("ValueError")

(***************************************************************************)
(* parse_path                                                              *)
(***************************************************************************)
\* path.index("]", i): the first position >= i that holds "]", or 0 where
\* the code raises ValueError (substring not found).
index(path, i) ==
    LET hits == {j \in i..Len(path) : path[j] = "]"}
    IN  IF hits = {} THEN 0 ELSE CHOOSE j \in hits : \A k \in hits : j <= k

\* A parser that drops the key it has buffered instead of appending it.
FlushBufNoFlush(tokens, buf) == tokens

\* if buf: tokens.append((buf, False)); buf = "" (the caller empties buf).
FlushBuf(tokens, buf) ==
    IF buf # <<>> THEN Append(tokens, Tuple(<<Str(buf), Bool(FALSE)>>))
    ELSE tokens

\* After an index token the code skips one "." that directly follows it.
SkipDot(path, i) == IF i <= Len(path) /\ path[i] = "." THEN i + 1 ELSE i

\* The while loop of parse_path from position i on, with the loop's buf and
\* tokens, and the flush and return that follow it.
RECURSIVE ParseLoop(_, _, _, _)
ParseLoop(path, i, buf, tokens) ==
    IF i > Len(path) THEN Ok(List(FlushBuf(tokens, buf)))
    ELSE IF path[i] = "." THEN ParseLoop(path, i + 1, <<>>, FlushBuf(tokens, buf))
    ELSE IF path[i] = "[" THEN
        LET j == index(path, i)
            idx == int(SubSeq(path, i + 1, j - 1))
        IN  IF j = 0 THEN Raise("ValueError")
            ELSE IF idx.kind = "raise" THEN idx
            ELSE ParseLoop(path, SkipDot(path, j + 1), <<>>,
                           Append(FlushBuf(tokens, buf),
                                  Tuple(<<Num(idx.value), Bool(TRUE)>>)))
    ELSE ParseLoop(path, i + 1, Append(buf, path[i]), tokens)

parse_path(path) == ParseLoop(path, 1, <<>>, <<>>)

(***************************************************************************)
(* pick                                                                    *)
(***************************************************************************)
HasKey(items, k) == \E n \in DOMAIN items : items[n][1] = k
Lookup(items, k) == items[CHOOSE n \in DOMAIN items : items[n][1] = k][2]

\* A subscription of lists alone that counts positions from 1.
getitemOneBased(cur, token) ==
    IF cur.t = "list" /\ token.t = "num" /\ token.n \in 1..Len(cur.items)
    THEN Ok(cur.items[token.n])
    ELSE Raise("IndexError")

\* cur[token], Python's subscription, for the values json.load produces and
\* the tokens parse_path produces.  A dict of a JSON document has str keys
\* only, so an int token is never one of its keys.  A negative position of
\* a list or a str counts from the end.
getitem(cur, token) ==
    CASE cur.t = "dict" ->
            IF token.t = "str" /\ HasKey(cur.items, token.s)
            THEN Ok(Lookup(cur.items, token.s))
            ELSE Raise("KeyError")
      [] cur.t = "list" ->
            IF token.t # "num" THEN Raise("TypeError")
            ELSE IF token.n \in 0..(Len(cur.items) - 1)
            THEN Ok(cur.items[token.n + 1])
            ELSE IF token.n \in (0 - Len(cur.items))..(0 - 1)
            THEN Ok(cur.items[Len(cur.items) + token.n + 1])
            ELSE Raise("IndexError")
      [] cur.t = "str" ->
            IF token.t # "num" THEN Raise("TypeError")
            ELSE IF token.n \in 0..(Len(cur.s) - 1)
            THEN Ok(Str(<<cur.s[token.n + 1]>>))
            ELSE IF token.n \in (0 - Len(cur.s))..(0 - 1)
            THEN Ok(Str(<<cur.s[Len(cur.s) + token.n + 1]>>))
            ELSE Raise("IndexError")
      [] OTHER -> Raise("TypeError")

\* The for loop of pick over the tokens from the k-th on.
RECURSIVE PickLoop(_, _, _)
PickLoop(cur, tokens, k) ==
    IF k > Len(tokens) THEN Ok(cur)
    ELSE LET token == tokens[k].items[1]
             is_index == tokens[k].items[2].b
             r == IF is_index THEN getitem(cur, token) ELSE getitem(cur, token)
         IN  IF r.kind = "raise" THEN r ELSE PickLoop(r.value, tokens, k + 1)

pick(data, dotted_path) ==
    LET p == parse_path(dotted_path)
    IN  IF p.kind = "raise" THEN p ELSE PickLoop(data, p.value.items, 1)

(***************************************************************************)
(* The heap: the dicts and lists deep_merge works on are cells, and a      *)
(* variable, a dict value or a list element that holds one holds a         *)
(* reference to it.  Scalars are immutable and held by value.              *)
(***************************************************************************)
Ref(a) == [t |-> "ref", a |-> a]
IsRef(x) == x.t = "ref"

\* json.load: a fresh cell for every container of the document, the cells
\* of its elements first.  (An intermediate result is handed on as an
\* argument, which is evaluated once.)
NewList(kids) ==
    [heap |-> Append(kids.heap, List(kids.refs)), ref |-> Ref(Len(kids.heap) + 1)]
NewDict(items, kids) ==
    [heap |-> Append(kids.heap,
                     Dict([n \in DOMAIN items |-> <<items[n][1], kids.refs[n]>>])),
     ref |-> Ref(Len(kids.heap) + 1)]
Cons(first, rest) == [heap |-> rest.heap, refs |-> <<first.ref>> \o rest.refs]

RECURSIVE Alloc(_, _), AllocSeq(_, _, _), AllocRest(_, _, _)
AllocRest(first, vs, n) == Cons(first, AllocSeq(first.heap, vs, n + 1))

AllocSeq(h, vs, n) ==
    IF n > Len(vs) THEN [heap |-> h, refs |-> <<>>]
    ELSE AllocRest(Alloc(h, vs[n]), vs, n)

Alloc(h, v) ==
    CASE v.t = "list" -> NewList(AllocSeq(h, v.items, 1))
      [] v.t = "dict" ->
            NewDict(v.items, AllocSeq(h, [n \in DOMAIN v.items |-> v.items[n][2]], 1))
      [] OTHER -> [heap |-> h, ref |-> v]

\* The document a reference stands for (what json.dump would write).
RECURSIVE Deref(_, _)
Deref(h, x) ==
    IF ~IsRef(x) THEN x
    ELSE LET cell == h[x.a]
         IN  IF cell.t = "list"
             THEN List([n \in DOMAIN cell.items |-> Deref(h, cell.items[n])])
             ELSE Dict([n \in DOMAIN cell.items |->
                          <<cell.items[n][1], Deref(h, cell.items[n][2])>>])

(***************************************************************************)
(* deep_merge                                                              *)
(***************************************************************************)
\* isinstance(x, dict)
IsDict(h, x) == IsRef(x) /\ h[x.a].t = "dict"

\* An assignment that leaves the value of an existing key as it is.
SetItemKeepOld(items, k, v) ==
    IF HasKey(items, k) THEN items ELSE Append(items, <<k, v>>)

\* out[k] = v on the items of a dict: an existing key keeps its place.
SetItem(items, k, v) ==
    IF HasKey(items, k)
    THEN [n \in DOMAIN items |-> IF items[n][1] = k THEN <<k, v>> ELSE items[n]]
    ELSE Append(items, <<k, v>>)

\* A merge of anything but two dicts that keeps left.
MergeOtherLeft(h, left, right) == [heap |-> h, ref |-> left]

\* A merge of anything but two dicts that concatenates two lists.
MergeOtherConcat(h, left, right) ==
    IF IsRef(left) /\ IsRef(right) /\ h[left.a].t = "list" /\ h[right.a].t = "list"
    THEN [heap |-> Append(h, List(h[left.a].items \o h[right.a].items)),
          ref |-> Ref(Len(h) + 1)]
    ELSE [heap |-> h, ref |-> right]

\* The last line of deep_merge: anything but two dicts gives right itself.
MergeOther(h, left, right) == [heap |-> h, ref |-> right]

\* out[k] = deep_merge(out[k], v), the merge m done.
PutMerged(out, k, m) == [m.heap EXCEPT ![out].items = SetItem(@, k, m.ref)]

\* deep_merge, and its for loop over right.items() from the n-th item on,
\* out being the cell of the copy dict(left).
RECURSIVE deep_merge(_, _, _), MergeItems(_, _, _, _)
MergeItems(h, out, ritems, n) ==
    IF n > Len(ritems) THEN h
    ELSE IF HasKey(h[out].items, ritems[n][1])
    THEN MergeItems(PutMerged(out, ritems[n][1],
                              deep_merge(h, Lookup(h[out].items, ritems[n][1]),
                                         ritems[n][2])),
                    out, ritems, n + 1)
    ELSE MergeItems([h EXCEPT ![out].items = SetItem(@, ritems[n][1], ritems[n][2])],
                    out, ritems, n + 1)

deep_merge(h, left, right) ==
    IF IsDict(h, left) /\ IsDict(h, right)
    THEN [heap |-> MergeItems(Append(h, Dict(h[left.a].items)), Len(h) + 1,
                              h[right.a].items, 1),
          ref |-> Ref(Len(h) + 1)]
    ELSE MergeOther(h, left, right)

(***************************************************************************)
(* structural_diff                                                         *)
(***************************************************************************)
\* The order of str is the order of code points, character by character.
CodeOrder ==
    <<" ", "+", "-", ".", "0", "1", "2", "3", "4", "5", "6", "7", "8", "9", "@",
      "[", "]", "_", "a", "b", "c", "d", "e", "f", "g", "h", "i", "j", "k", "l",
      "m", "n", "o", "p", "q", "r", "s", "t", "u", "v", "w", "x", "y", "z">>
ord(c) == CHOOSE n \in DOMAIN CodeOrder : CodeOrder[n] = c

RECURSIVE StrLess(_, _)
StrLess(a, b) ==
    IF b = <<>> THEN FALSE
    ELSE IF a = <<>> THEN TRUE
    ELSE IF a[1] # b[1] THEN ord(a[1]) < ord(b[1])
    ELSE StrLess(Tail(a), Tail(b))

\* sorted(S) for a set S of str.
RECURSIVE sorted(_)
sorted(S) ==
    IF S = {} THEN <<>>
    ELSE LET least == CHOOSE x \in S : \A y \in S \ {x} : StrLess(x, y)
         IN  <<least>> \o sorted(S \ {least})

keys(d) == {d.items[n][1] : n \in DOMAIN d.items}

StrList(ss) == List([n \in DOMAIN ss |-> Str(ss[n])])

OnlyInLeft == <<"o", "n", "l", "y", "_", "i", "n", "_", "l", "e", "f", "t">>
OnlyInRight == <<"o", "n", "l", "y", "_", "i", "n", "_", "r", "i", "g", "h", "t">>

\* A diff of two dicts with the two differences taken the wrong way round.
DiffOfDictsSwapped(left, right) ==
    Dict(<< <<OnlyInLeft, StrList(sorted(keys(right) \ keys(left)))>>,
            <<OnlyInRight, StrList(sorted(keys(left) \ keys(right)))>> >>)

\* The dict structural_diff returns for two dicts.
DiffOfDicts(left, right) ==
    Dict(<< <<OnlyInLeft, StrList(sorted(keys(left) \ keys(right)))>>,
            <<OnlyInRight, StrList(sorted(keys(right) \ keys(left)))>> >>)

structural_diff(left, right) ==
    IF left.t = "dict" /\ right.t = "dict"
    THEN DiffOfDicts(left, right)
    ELSE Dict(<< <<OnlyInLeft, List(<<>>)>>, <<OnlyInRight, List(<<>>)>> >>)

(***************************************************************************)
(* Inputs.                                                                 *)
(***************************************************************************)
Alphabet == {"a", ".", "[", "]", "1", "-", " "}

RECURSIVE StringsOfLen(_)
StringsOfLen(n) ==
    IF n = 0 THEN {<<>>}
    ELSE {Append(s, c) : s \in StringsOfLen(n - 1), c \in Alphabet}

\* The paths of the tests and of the parser's docstring.
Path_a_b_2_c == <<"a", ".", "b", "[", "2", "]", ".", "c">>
Path_users_0_email ==
    <<"u", "s", "e", "r", "s", "[", "0", "]", ".", "e", "m", "a", "i", "l">>
Path_users_0 == <<"u", "s", "e", "r", "s", "[", "0", "]">>
ExamplePaths == {Path_a_b_2_c, Path_users_0_email, Path_users_0}

Paths == UNION {StringsOfLen(n) : n \in 0..MaxPathLen} \cup ExamplePaths

\* JSON documents as json.load returns them, by number of nodes: a scalar
\* or an empty container is one node, a container is one node more than
\* its elements together.
Keys == {<<"a">>, <<"b">>}
Scalars == {Null, Bool(TRUE), Num(1), Str(<<"a", "b">>)}

KeySeqs(n) == {ks \in [1..n -> Keys] : \A i, j \in 1..n : i # j => ks[i] # ks[j]}

RECURSIVE ValuesOfSize(_, _), ChildSeqs(_, _)
ChildSeqs(S, m) ==
    IF m = 0 THEN {<<>>}
    ELSE UNION {{<<v>> \o rest : v \in ValuesOfSize(S, k), rest \in ChildSeqs(S, m - k)} :
                k \in 1..m}

\* The documents of n nodes whose scalars are in S.
ValuesOfSize(S, n) ==
    IF n = 1 THEN S \cup {Dict(<<>>), List(<<>>)}
    ELSE {List(cs) : cs \in ChildSeqs(S, n - 1)}
         \cup UNION {{Dict([i \in 1..Len(cs) |-> <<ks[i], cs[i]>>]) :
                         ks \in KeySeqs(Len(cs))} :
                     cs \in {c \in ChildSeqs(S, n - 1) : Len(c) <= Cardinality(Keys)}}

\* The documents of the tests.
Users == <<"u", "s", "e", "r", "s">>
Email == <<"e", "m", "a", "i", "l">>
Nested == <<"n", "e", "s", "t", "e", "d">>
Addr == <<"a", "@", "b", ".", "c", "o", "m">>
Doc_users == Dict(<< <<Users, List(<<Dict(<< <<Email, Str(Addr)>> >>)>>)>> >>)
Doc_merge_a ==
    Dict(<< <<<<"x">>, Num(1)>>,
            <<Nested, Dict(<< <<<<"a">>, Num(1)>>, <<<<"b">>, Num(2)>> >>)>> >>)
Doc_merge_b ==
    Dict(<< <<Nested, Dict(<< <<<<"b">>, Num(10)>>, <<<<"c">>, Num(20)>> >>)>>,
            <<<<"y">>, Num(2)>> >>)
ExampleDocs == {Doc_users, Doc_merge_a, Doc_merge_b}

\* The documents pick is called with.
Values == UNION {ValuesOfSize(Scalars, n) : n \in 1..MaxNodes} \cup ExampleDocs

\* The documents deep_merge and structural_diff are called with, in pairs.
\* Neither function looks into a scalar, so two scalars stand for all.
MergeScalars == {Null, Num(1)}
MergeValues == UNION {ValuesOfSize(MergeScalars, n) : n \in 1..MaxNodes}
ExamplePairs == {<<Doc_merge_a, Doc_merge_b>>}

\* The paths pick is called with: up to MaxSegs pieces, a "." before a key
\* that is not the first piece.
Pieces == {<<"a">>, <<"b">>, <<"[", "0", "]">>, <<"[", "1", "]">>, <<"[", "-", "1", "]">>}

RECURSIVE PiecePaths(_)
PiecePaths(n) ==
    IF n = 0 THEN {<<>>}
    ELSE {IF p # <<>> /\ q[1] # "[" THEN p \o <<".">> \o q ELSE p \o q :
            p \in PiecePaths(n - 1), q \in Pieces}

PickPaths == UNION {PiecePaths(n) : n \in 0..MaxSegs} \cup ExamplePaths

(***************************************************************************)
(* The state machine: one call of one of the functions per behaviour.      *)
(***************************************************************************)
Init ==
    /\ op = "none"
    /\ args = <<>>
    /\ heap = <<>>
    /\ result = Null

ParsePath ==
    /\ op = "none"
    /\ \E path \in Paths :
        /\ op' = "parse_path"
        /\ args' = <<path>>
        /\ result' = parse_path(path)
    /\ UNCHANGED heap

Pick ==
    /\ op = "none"
    /\ \E data \in Values, dotted_path \in PickPaths :
        /\ op' = "pick"
        /\ args' = <<data, dotted_path>>
        /\ result' = pick(data, dotted_path)
    /\ UNCHANGED heap

\* cmd_merge: both documents are loaded, each into cells of its own, and
\* merged.  args keeps the documents as loaded and the references to them.
Merge(l, r, la, ra, m) ==
    /\ op' = "deep_merge"
    /\ args' = <<l, r, la.ref, ra.ref>>
    /\ heap' = m.heap
    /\ result' = Ok(m.ref)
LoadRight(l, r, la, ra) == Merge(l, r, la, ra, deep_merge(ra.heap, la.ref, ra.ref))
LoadLeft(l, r, la) == LoadRight(l, r, la, Alloc(la.heap, r))
MergeCall(l, r) == LoadLeft(l, r, Alloc(<<>>, l))

DeepMerge ==
    /\ op = "none"
    /\ \/ \E l \in MergeValues, r \in MergeValues : MergeCall(l, r)
       \/ \E lr \in ExamplePairs : MergeCall(lr[1], lr[2])

DiffCall(l, r) ==
    /\ op' = "structural_diff"
    /\ args' = <<l, r>>
    /\ result' = Ok(structural_diff(l, r))
    /\ UNCHANGED heap

StructuralDiff ==
    /\ op = "none"
    /\ \/ \E l \in MergeValues, r \in MergeValues : DiffCall(l, r)
       \/ \E lr \in ExamplePairs : DiffCall(lr[1], lr[2])

Next == ParsePath \/ Pick \/ DeepMerge \/ StructuralDiff

Spec == Init /\ [][Next]_vars

\* The functions apart: the path parser and evaluator, the merge, the diff.
NextPath == ParsePath \/ Pick
SpecPath == Init /\ [][NextPath]_vars

NextMerge == DeepMerge
SpecMerge == Init /\ [][NextMerge]_vars

NextDiff == StructuralDiff
SpecDiff == Init /\ [][NextDiff]_vars


(***************************************************************************)
(* The path parser's claims.                                               *)
(***************************************************************************)
\* The typed segments of the specification, as parse_path's tokens
\* (token, is_index).
Key(k) == Tuple(<<Str(k), Bool(FALSE)>>)
Index(i) == Tuple(<<Num(i), Bool(TRUE)>>)

\* Position p lies in a bracket group: from a "[" to the first "]" after it.
InBracket(path, p) ==
    \E q \in 1..p : path[q] = "[" /\ \A r \in (q + 1)..(p - 1) : path[r] # "]"
IsKeyChar(path, p) == ~InBracket(path, p) /\ path[p] # "."
\* The segments start where a maximal run of key characters starts and at
\* every "[".
SegStarts(path) ==
    {p \in DOMAIN path :
        \/ path[p] = "["
        \/ IsKeyChar(path, p) /\ (p = 1 \/ ~IsKeyChar(path, p - 1))}
RunEnd(path, p) ==
    CHOOSE e \in p..Len(path) :
        /\ \A r \in p..e : IsKeyChar(path, r)
        /\ (e = Len(path) \/ ~IsKeyChar(path, e + 1))
SegAt(path, p) ==
    IF path[p] = "["
    THEN Index(int(SubSeq(path, p + 1, index(path, p) - 1)).value)
    ELSE Key(SubSeq(path, p, RunEnd(path, p)))
NthStart(path, n) ==
    CHOOSE p \in SegStarts(path) : Cardinality({q \in SegStarts(path) : q < p}) = n - 1
Segments(path) ==
    [n \in 1..Cardinality(SegStarts(path)) |-> SegAt(path, NthStart(path, n))]

\* C1: a path that parses gives, left to right, one Key per maximal run of
\* characters other than "." and "[" and one Index per bracketed integer;
\* "a.b[2].c" gives Key a, Key b, Index 2, Key c and "users[0]" gives
\* Key users, Index 0.
C1_Segments ==
    op = "parse_path" =>
        /\ result.kind = "ok" => result.value = List(Segments(args[1]))
        /\ args[1] = Path_a_b_2_c =>
            result = Ok(List(<<Key(<<"a">>), Key(<<"b">>), Index(2), Key(<<"c">>)>>))
        /\ args[1] = Path_users_0 => result = Ok(List(<<Key(Users), Index(0)>>))

C1_Witness ==
    /\ op = "parse_path"
    /\ args[1] = Path_a_b_2_c
    /\ result = Ok(List(<<Key(<<"a">>), Key(<<"b">>), Index(2), Key(<<"c">>)>>))

\* The bracket groups of a path, scanned from position i: one is unclosed,
\* or holds, once trimmed, something other than a non-empty run of digits.
RECURSIVE Malformed(_, _)
Malformed(path, i) ==
    LET opens == {q \in i..Len(path) : path[q] = "["}
        q == CHOOSE x \in opens : \A y \in opens : x <= y
        j == index(path, q)
        content == strip(SubSeq(path, q + 1, j - 1))
    IN  IF opens = {} THEN FALSE
        ELSE IF j = 0 THEN TRUE
        ELSE IF content = <<>> \/ \E n \in DOMAIN content : content[n] \notin Digits
        THEN TRUE
        ELSE Malformed(path, j + 1)

\* C7: parse_path fails, with its one error kind (ValueError stands for
\* MalformedPath), exactly when a bracket is unclosed or a bracket's trimmed
\* content is not a non-empty run of decimal digits.
C7_MalformedExactly ==
    op = "parse_path" => (result = Raise("ValueError") <=> Malformed(args[1], 1))

\* C9: parse_path returns plain tokens, a str per key and an int per index,
\* and "a.b[2].c" gives ["a", "b", 2, "c"].
C9_PlainTokens ==
    op = "parse_path" /\ result.kind = "ok" =>
        /\ \A n \in DOMAIN result.value.items : result.value.items[n].t \in {"str", "num"}
        /\ args[1] = Path_a_b_2_c =>
            result.value = List(<<Str(<<"a">>), Str(<<"b">>), Num(2), Str(<<"c">>)>>)

(***************************************************************************)
(* The path evaluator's claims.                                            *)
(***************************************************************************)
\* Resolution as specified, one segment after another.  The error kinds
\* PathTypeError, PathNotFound and PathIndexOutOfRange are taken to be the
\* exceptions TypeError, KeyError and IndexError.
ResolveSegment(cur, seg) ==
    IF seg.items[2].b
    THEN IF cur.t # "list" THEN Raise("TypeError")
         ELSE IF seg.items[1].n \in 0..(Len(cur.items) - 1)
         THEN Ok(cur.items[seg.items[1].n + 1])
         ELSE Raise("IndexError")
    ELSE IF cur.t # "dict" THEN Raise("TypeError")
         ELSE IF HasKey(cur.items, seg.items[1].s)
         THEN Ok(Lookup(cur.items, seg.items[1].s))
         ELSE Raise("KeyError")

RECURSIVE Resolve(_, _)
Resolve(cur, segs) ==
    IF segs = <<>> THEN Ok(cur)
    ELSE LET r == ResolveSegment(cur, Head(segs))
         IN  IF r.kind = "raise" THEN r ELSE Resolve(r.value, Tail(segs))

Specified(data, path) == Resolve(data, parse_path(path).value.items)

\* C2: when every segment of the path resolves, pick returns the value the
\* segments lead to from the root, the root itself for no segments, and
\* "a@b.com" for users[0].email of the test's document.
C2_PickResolves ==
    op = "pick" /\ parse_path(args[2]).kind = "ok" =>
        /\ Specified(args[1], args[2]).kind = "ok" => result = Specified(args[1], args[2])
        /\ args[2] = <<>> => result = Ok(args[1])
        /\ args = <<Doc_users, Path_users_0_email>> => result = Ok(Str(Addr))

C2_Witness ==
    /\ op = "pick"
    /\ args = <<Doc_users, Path_users_0_email>>
    /\ result = Ok(Str(Addr))

\* C8: every failure of pick has the kind of its cause: an Index on a
\* non-array or a Key on a non-object is a type error and returns nothing,
\* an absent key is not found, an index >= length or < 0 is out of range.
C8_ErrorKinds ==
    op = "pick" /\ parse_path(args[2]).kind = "ok" =>
        result = Specified(args[1], args[2])

(***************************************************************************)
(* deep_merge's claims.                                                    *)
(***************************************************************************)
Merged == Deref(heap, result.value)

\* m is the merge of the objects a and b as specified: the keys of both, a's
\* value for a key of a alone, b's for a key of b alone, and for a key of
\* both the merge of the two nested objects, or b's scalar.
RECURSIVE MergedAsSpecified(_, _, _)
MergedAsSpecified(a, b, m) ==
    /\ m.t = "dict"
    /\ keys(m) = keys(a) \cup keys(b)
    /\ Len(m.items) = Cardinality(keys(m))
    /\ \A k \in keys(m) :
        IF ~HasKey(b.items, k) THEN Lookup(m.items, k) = Lookup(a.items, k)
        ELSE IF ~HasKey(a.items, k) THEN Lookup(m.items, k) = Lookup(b.items, k)
        ELSE IF Lookup(a.items, k).t = "dict" /\ Lookup(b.items, k).t = "dict"
        THEN MergedAsSpecified(Lookup(a.items, k), Lookup(b.items, k), Lookup(m.items, k))
        ELSE Lookup(b.items, k).t \notin {"dict", "list"} =>
                Lookup(m.items, k) = Lookup(b.items, k)

Doc_merged ==
    Dict(<< <<<<"x">>, Num(1)>>,
            <<Nested, Dict(<< <<<<"a">>, Num(1)>>, <<<<"b">>, Num(10)>>,
                              <<<<"c">>, Num(20)>> >>)>>,
            <<<<"y">>, Num(2)>> >>)

\* C3: the merge of two objects has the keys of both; a key of one alone
\* keeps that one's value and a key of both holds the recursive merge.
C3_ObjectMerge ==
    op = "deep_merge" /\ args[1].t = "dict" /\ args[2].t = "dict" =>
        /\ MergedAsSpecified(args[1], args[2], Merged)
        /\ (args[1] = Doc_merge_a /\ args[2] = Doc_merge_b) => Merged = Doc_merged

C3_Witness ==
    /\ op = "deep_merge"
    /\ args[1] = Dict(<< <<<<"a">>, Dict(<< <<<<"a">>, Num(1)>> >>)>> >>)
    /\ args[2] = Dict(<< <<<<"a">>, Dict(<< <<<<"b">>, Null>> >>)>> >>)
    /\ Merged = Dict(<< <<<<"a">>, Dict(<< <<<<"a">>, Num(1)>>, <<<<"b">>, Null>> >>)>> >>)

\* The canonical form of a value: the keys of every object sorted.
RECURSIVE Canon(_)
Canon(v) ==
    CASE v.t = "list" -> List([n \in DOMAIN v.items |-> Canon(v.items[n])])
      [] v.t = "dict" ->
            LET ks == sorted(keys(v))
            IN  Dict([n \in DOMAIN ks |-> <<ks[n], Canon(Lookup(v.items, ks[n]))>>])
      [] OTHER -> v

\* The elements of a sequence, an element dropped when an earlier one has
\* its canonical form.
RECURSIVE Dedupe(_)
Dedupe(items) ==
    IF items = <<>> THEN <<>>
    ELSE LET front == SubSeq(items, 1, Len(items) - 1)
             last == items[Len(items)]
         IN  IF \E n \in DOMAIN front : Canon(front[n]) = Canon(last)
             THEN Dedupe(front)
             ELSE Append(Dedupe(front), last)

BothLists(a, b) == a.t = "list" /\ b.t = "list"
SharedListKeys(a, b) ==
    IF a.t = "dict" /\ b.t = "dict"
    THEN {k \in keys(a) \cap keys(b) : BothLists(Lookup(a.items, k), Lookup(b.items, k))}
    ELSE {}

\* C4, as stated: two arrays, at the top or at a shared key, merge to their
\* concatenation without the duplicates.
C4_ConcatDedupe ==
    op = "deep_merge" =>
        /\ BothLists(args[1], args[2]) =>
            Merged = List(Dedupe(args[1].items \o args[2].items))
        /\ \A k \in SharedListKeys(args[1], args[2]) :
            Lookup(Merged.items, k) =
                List(Dedupe(Lookup(args[1].items, k).items \o Lookup(args[2].items, k).items))

\* C4, amended: two arrays, at the top or at a shared key, merge to the
\* right array, unchanged.
C4_RightArray ==
    op = "deep_merge" =>
        /\ BothLists(args[1], args[2]) => Merged = args[2]
        /\ \A k \in SharedListKeys(args[1], args[2]) :
            Lookup(Merged.items, k) = Lookup(args[2].items, k)

C4_Witness ==
    /\ op = "deep_merge"
    /\ args[1] = Dict(<< <<<<"a">>, List(<<Num(1)>>)>> >>)
    /\ args[2] = Dict(<< <<<<"a">>, List(<<Null>>)>> >>)
    /\ Merged = args[2]

\* The cells a reference reaches.
RECURSIVE Reach(_, _)
Reach(h, x) ==
    IF ~IsRef(x) THEN {}
    ELSE {x.a} \cup UNION {Reach(h, IF h[x.a].t = "list" THEN h[x.a].items[n]
                                     ELSE h[x.a].items[n][2]) :
                           n \in DOMAIN h[x.a].items}

\* C5: the call changes neither input, and the result shares no container
\* with an input.
C5_Isolated ==
    op = "deep_merge" =>
        /\ Deref(heap, args[3]) = args[1]
        /\ Deref(heap, args[4]) = args[2]
        /\ Reach(heap, result.value) \cap (Reach(heap, args[3]) \cup Reach(heap, args[4])) = {}

\* C10: merging a value with itself gives the value, arrays and arrays
\* with repeated elements included.
C10_SelfMerge ==
    op = "deep_merge" /\ args[1] = args[2] => Merged = args[1]

C10_Witness ==
    /\ op = "deep_merge"
    /\ args[1] = List(<<Num(1), Num(1)>>)
    /\ args[2] = args[1]
    /\ Merged = args[1]

(***************************************************************************)
(* structural_diff's claims.                                               *)
(***************************************************************************)
\* The leaves of a value, each with its address: a leaf is a scalar or an
\* empty container, an address the keys and positions leading to it.
RECURSIVE Leaves(_, _)
Leaves(v, at) ==
    IF v.t = "dict" /\ v.items # <<>>
    THEN UNION {Leaves(v.items[n][2], Append(at, Str(v.items[n][1]))) : n \in DOMAIN v.items}
    ELSE IF v.t = "list" /\ v.items # <<>>
    THEN UNION {Leaves(v.items[n], Append(at, Num(n - 1))) : n \in DOMAIN v.items}
    ELSE {<<at, v>>}

Addresses(v) == {e[1] : e \in Leaves(v, <<>>)}
LeafAt(v, at) == (CHOOSE e \in Leaves(v, <<>>) : e[1] = at)[2]

\* What the result reports under a key, as addresses; nothing when the
\* result has no such key.
Reported(k) ==
    IF HasKey(result.value.items, k)
    THEN {<<Lookup(result.value.items, k).items[n]>> :
            n \in DOMAIN Lookup(result.value.items, k).items}
    ELSE {}
Changed == <<"c", "h", "a", "n", "g", "e", "d">>

\* C6, as stated: the diff is at leaf level: added are the leaf addresses of
\* right alone, removed those of left alone, changed those of both whose
\* values differ.
C6_LeafDiff ==
    op = "structural_diff" =>
        /\ Reported(OnlyInRight) = Addresses(args[2]) \ Addresses(args[1])
        /\ Reported(OnlyInLeft) = Addresses(args[1]) \ Addresses(args[2])
        /\ Reported(Changed) =
            {<<at>> : at \in {a \in Addresses(args[1]) \cap Addresses(args[2]) :
                                LeafAt(args[1], a) # LeafAt(args[2], a)}}

Ascending(list) ==
    \A n \in 1..(Len(list.items) - 1) : StrLess(list.items[n].s, list.items[n + 1].s)
StrSet(list) == {list.items[n].s : n \in DOMAIN list.items}

\* C6, amended: the diff is of the top-level keys of two objects: the keys
\* of left alone and the keys of right alone, each ascending; both lists
\* are empty for any other operands and for a value against itself, and
\* nothing is reported of changed values.
C6_TopLevelKeys ==
    op = "structural_diff" =>
        LET l == Lookup(result.value.items, OnlyInLeft)
            r == Lookup(result.value.items, OnlyInRight)
            dicts == args[1].t = "dict" /\ args[2].t = "dict"
        IN  /\ keys(result.value) = {OnlyInLeft, OnlyInRight}
            /\ Ascending(l) /\ Ascending(r)
            /\ StrSet(l) = IF dicts THEN keys(args[1]) \ keys(args[2]) ELSE {}
            /\ StrSet(r) = IF dicts THEN keys(args[2]) \ keys(args[1]) ELSE {}
            /\ args[1] = args[2] => l = List(<<>>) /\ r = List(<<>>)

C6_Witness ==
    /\ op = "structural_diff"
    /\ args[1] = Dict(<< <<<<"b">>, Num(1)>>, <<<<"a">>, Num(1)>> >>)
    /\ args[2] = Dict(<<>>)
    /\ result = Ok(Dict(<< <<OnlyInLeft, List(<<Str(<<"a">>), Str(<<"b">>)>>)>>,
                           <<OnlyInRight, List(<<>>)>> >>))

=============================================================================
